---- MODULE Spec2Model ----
(***************************************************************************)
(* A model of person.rs (src/src/lib.rs): the Person value, its five       *)
(* constructors, its accessors and formatters, and get_random_username.    *)
(*                                                                         *)
(* Time.  A DateTime<Utc> is an integer number of ticks since              *)
(* 1970-01-01T00:00:00Z.  chrono counts nanoseconds; the model keeps the   *)
(* three units the code distinguishes (the timestamp's own resolution, the *)
(* millisecond of num_milliseconds / Duration::milliseconds, the day of    *)
(* Duration::days) and scales the ratios between them down: TicksPerMilli  *)
(* ticks make a millisecond, MillisPerDay milliseconds make a day.  The    *)
(* calendar (year, month, day of a timestamp) is the proleptic Gregorian   *)
(* calendar, unscaled.                                                     *)
(*                                                                         *)
(* Strings are sequences of one-character strings.  Option<T> is a         *)
(* sequence of length 0 (None) or 1 (Some).  Every draw from the           *)
(* randomness source is an existentially chosen input of the action.       *)
(***************************************************************************)
EXTENDS Integers, Sequences, FiniteSets

VARIABLES
    now,      \* the wall clock, Utc::now()
    person,   \* Option<Person>: the Person value the caller holds
    origin,   \* Option: the constructor call that produced `person`
    pc,       \* the caller's position: "ready", "returned" or "panicked"
    op,       \* the function called last ("" when the caller is ready)
    args,     \* Option: the arguments of the constructor called last
    joined,   \* get_random_username's parts.join("") of the last call
    ret       \* Option: the value the last call returned

vars == <<now, person, origin, pc, op, args, joined, ret>>

----------------------------------------------------------------------------
(* Scales of the time model. *)

TicksPerMilli == 2

MillisPerDay == 2

\* The most characters of one username that the model lets leetify_string substitute.
MaxSubstitutions == 2

TicksPerDay == TicksPerMilli * MillisPerDay

----------------------------------------------------------------------------
(* Option<T> *)

None == << >>

Some(x) == << x >>

is_some(o) == Len(o) = 1

unwrap(o) == o[1]

----------------------------------------------------------------------------
(* chrono: durations and the calendar *)

Duration_days(n) == n * TicksPerDay

Duration_milliseconds(n) == n * TicksPerMilli

\* Duration::num_milliseconds: whole milliseconds, truncated toward zero.
num_milliseconds(d) ==
    IF d >= 0 THEN d \div TicksPerMilli ELSE 0 - ((0 - d) \div TicksPerMilli)

\* The day number (days since 1970-01-01) and the time of day of a timestamp.
DayOf(t) == t \div TicksPerDay

TimeOf(t) == t % TicksPerDay

\* Day number -> <<year, month, day>> in the proleptic Gregorian calendar.
CivilFromDays(days) ==
    LET z   == days + 719468
        era == z \div 146097
        doe == z % 146097
        yoe == (doe - (doe \div 1460) + (doe \div 36524) - (doe \div 146096)) \div 365
        doy == doe - (365 * yoe + (yoe \div 4) - (yoe \div 100))
        mp  == (5 * doy + 2) \div 153
        d   == doy - ((153 * mp + 2) \div 5) + 1
        m   == IF mp < 10 THEN mp + 3 ELSE mp - 9
        y   == yoe + era * 400 + (IF m <= 2 THEN 1 ELSE 0)
    IN  << y, m, d >>

\* <<year, month, day>> -> day number.
DaysFromCivil(y0, m, d) ==
    LET y   == IF m <= 2 THEN y0 - 1 ELSE y0
        era == y \div 400
        yoe == y % 400
        mp  == IF m > 2 THEN m - 3 ELSE m + 9
        doy == ((153 * mp + 2) \div 5) + d - 1
        doe == yoe * 365 + (yoe \div 4) - (yoe \div 100) + doy
    IN  era * 146097 + doe - 719468

\* Datelike::year
year(t) == CivilFromDays(DayOf(t))[1]

\* Lexicographic (month, day, time) < (month, day, time), as Rust compares tuples.
TupleLess(a, b) ==
    \/ a[1] < b[1]
    \/ a[1] = b[1] /\ a[2] < b[2]
    \/ a[1] = b[1] /\ a[2] = b[2] /\ a[3] < b[3]

\* DateTime::years_since(base): Option<u32>
years_since(self, base) ==
    LET s     == CivilFromDays(DayOf(self))
        b     == CivilFromDays(DayOf(base))
        early == TupleLess(<< s[2], s[3], TimeOf(self) >>, << b[2], b[3], TimeOf(base) >>)
        years == s[1] - b[1] - (IF early THEN 1 ELSE 0)
    IN  IF years >= 0 THEN Some(years) ELSE None

----------------------------------------------------------------------------
(* Strings *)

RECURSIVE Digits(_)
\* The decimal digits of a natural number.
Digits(n) ==
    LET d == << "0", "1", "2", "3", "4", "5", "6", "7", "8", "9" >>
    IN  IF n < 10 THEN << d[n + 1] >> ELSE Digits(n \div 10) \o << d[(n % 10) + 1] >>

\* ToString for the integers the code formats (u32 ages, i32 years, i32 draws).
to_string(n) == IF n < 0 THEN << "-" >> \o Digits(0 - n) ELSE Digits(n)

----------------------------------------------------------------------------
(* mod list: the static word lists.  Non-empty lists of non-empty names. *)

NAMES == << << "L", "i" >>, << "b", "o" >> >>

SURNAMES == << << "N", "g" >> >>

----------------------------------------------------------------------------
(* rand *)

\* The values Rng::gen_range(lo..hi) can return; the call panics when there are none.
GenRangeUnchecked(lo, hi) == IF hi <= lo THEN { lo } ELSE lo .. (hi - 1)

gen_range(lo, hi) == lo .. (hi - 1)

\* The values SliceRandom::choose can return (None, here the empty set, for an empty slice).
choose(list) == { list[i] : i \in DOMAIN list }

\* The draws the model follows.  Under the profile "dates" every draw of
\* gen_range(lo..hi) and the first entry of a list; under the profile "names" the
\* draws at the two ends of the range and every entry of a list.
DrawsOf(lo, hi, profile) ==
    IF profile = "dates" THEN gen_range(lo, hi)
    ELSE { x \in { lo, hi - 1, hi } : x \in gen_range(lo, hi) }

ChoicesOf(list, profile) ==
    IF profile = "dates" THEN { x \in { list[1] } : x \in choose(list) }
    ELSE choose(list)

\* The draws of gen_range(0..9999) the model follows.
NumberDraws == { x \in { 7 } : x \in gen_range(0, 9999) }

----------------------------------------------------------------------------
(* Person *)

\* date_of_birth: min + Duration::milliseconds(random_millis)
DateOfBirthOffByOne(min, random_millis) == min + Duration_milliseconds(random_millis + 1)

date_of_birth_of(min, random_millis) == min + Duration_milliseconds(random_millis)

\* middle_name: if have_middle_name { Some(name) } else { None }
MiddleNameAlways(have_middle_name, name) == Some(name)

middle_name_of(have_middle_name, name) == IF have_middle_name THEN Some(name) ELSE None

Call(opname) == op' = opname

Returns(opname, value) ==
    /\ Call(opname)
    /\ pc' = "returned"
    /\ ret' = Some(value)

Panics(opname) ==
    /\ Call(opname)
    /\ pc' = "panicked"
    /\ ret' = None

\* with_dob_range_custom_rng, reached from the constructor `opname`; `requested`
\* is Some(flag) when the caller passed have_middle_name and None when the
\* constructor drew it.
Construct(opname, min, max, have_middle_name, requested, profile) ==
    LET range_millis == num_milliseconds(max - min)
        a == [min |-> min, max |-> max, requested |-> requested]
    IN  /\ pc = "ready"
        /\ args' = Some(a)
        /\ joined' = << >>
        /\ UNCHANGED now
        /\ IF gen_range(0, range_millis) = {}
           THEN /\ Panics(opname)
                /\ UNCHANGED << person, origin >>
           ELSE \E random_millis \in DrawsOf(0, range_millis, profile),
                   first \in ChoicesOf(NAMES, profile),
                   middle \in ChoicesOf(NAMES, profile),
                   last \in ChoicesOf(SURNAMES, profile) :
                    LET p == [date_of_birth |-> date_of_birth_of(min, random_millis),
                              first_name    |-> first,
                              middle_name   |-> middle_name_of(have_middle_name, middle),
                              last_name     |-> last]
                    IN  /\ person' = Some(p)
                        /\ origin' = Some(a)
                        /\ Returns(opname, p)

\* Person::new(have_middle_name)
new ==
    \E have_middle_name \in BOOLEAN :
        Construct("new", now - Duration_days(366 * 100), now,
                  have_middle_name, Some(have_middle_name), "names")

\* Person::random()
random ==
    \E coin \in BOOLEAN :
        Construct("random", now - Duration_days(366 * 100), now, coin, None, "names")

\* The wall clock's readings: the first, and one a year and a millisecond later.
ClockStart == Duration_days(DaysFromCivil(2026, 11, 2)) + 1

ClockValues == { ClockStart, ClockStart + Duration_days(366) + Duration_milliseconds(1) }

\* The timestamps a caller passes as min and max: 21 years back, one tick (less
\* than a millisecond) after that, and a year ahead of the first clock reading.
DateInputs ==
    { ClockStart - Duration_days(366 * 21),
      ClockStart - Duration_days(366 * 21) + 1,
      ClockStart + Duration_days(366) }

\* Person::random_with_dob_range(min, max)
random_with_dob_range ==
    \E min \in DateInputs, max \in DateInputs, coin \in BOOLEAN :
        Construct("random_with_dob_range", min, max, coin, None, "names")

\* Person::with_dob_range(min, max, have_middle_name)
with_dob_range ==
    \E min \in DateInputs, max \in DateInputs, have_middle_name \in BOOLEAN :
        Construct("with_dob_range", min, max, have_middle_name,
                  Some(have_middle_name), "names")

\* Person::with_dob_range_custom_rng(rng, min, max, have_middle_name)
with_dob_range_custom_rng ==
    \E min \in DateInputs, max \in DateInputs, have_middle_name \in BOOLEAN :
        Construct("with_dob_range_custom_rng", min, max, have_middle_name,
                  Some(have_middle_name), "names")

\* A method call on the Person the caller holds: &self, so the Person stays as it is.
Method ==
    /\ pc = "ready"
    /\ is_some(person)
    /\ UNCHANGED << now, person, origin, args >>

get_first_name ==
    /\ Method
    /\ joined' = << >>
    /\ Returns("get_first_name", unwrap(person).first_name)

get_middle_name ==
    /\ Method
    /\ joined' = << >>
    /\ Returns("get_middle_name", unwrap(person).middle_name)

get_last_name ==
    /\ Method
    /\ joined' = << >>
    /\ Returns("get_last_name", unwrap(person).last_name)

get_date_of_birth ==
    /\ Method
    /\ joined' = << >>
    /\ Returns("get_date_of_birth", unwrap(person).date_of_birth)

\* Utc::now().years_since(self.date_of_birth), the Option that get_age unwraps.
age_of(self, clock) == years_since(clock, self.date_of_birth)

get_age ==
    /\ Method
    /\ joined' = << >>
    /\ IF is_some(age_of(unwrap(person), now))
       THEN Returns("get_age", unwrap(age_of(unwrap(person), now)))
       ELSE Panics("get_age")

\* get_full_name: format!("{}{}{}", first_name, " {mn} " or " ", last_name)
FullNameTwoSpaces(self) ==
    self.first_name
        \o (IF is_some(self.middle_name)
            THEN << " " >> \o unwrap(self.middle_name) \o << " " >>
            ELSE << " ", " " >>)
        \o self.last_name

full_name_of(self) ==
    self.first_name
        \o (IF is_some(self.middle_name)
            THEN << " " >> \o unwrap(self.middle_name) \o << " " >>
            ELSE << " " >>)
        \o self.last_name

get_full_name ==
    /\ Method
    /\ joined' = << >>
    /\ Returns("get_full_name", full_name_of(unwrap(person)))

\* mn.chars().next(): Option<char>
first_char(s) == IF Len(s) > 0 THEN Some(s[1]) ELSE None

\* s.chars().last(): Option<char>
last_char(s) == IF Len(s) > 0 THEN Some(s[Len(s)]) ELSE None

\* get_short_full_name: format!("{}{}{}", first_name, " {initial}. " or " ", last_name);
\* None when mn.chars().next().unwrap() panics.
ShortFullNameLastInitial(self) ==
    IF is_some(self.middle_name) /\ ~is_some(first_char(unwrap(self.middle_name)))
    THEN None
    ELSE Some(self.first_name
                \o (IF is_some(self.middle_name)
                    THEN << " ", unwrap(last_char(unwrap(self.middle_name))), ".", " " >>
                    ELSE << " " >>)
                \o self.last_name)

short_full_name_of(self) ==
    IF is_some(self.middle_name) /\ ~is_some(first_char(unwrap(self.middle_name)))
    THEN None
    ELSE Some(self.first_name
                \o (IF is_some(self.middle_name)
                    THEN << " ", unwrap(first_char(unwrap(self.middle_name))), ".", " " >>
                    ELSE << " " >>)
                \o self.last_name)

get_short_full_name ==
    /\ Method
    /\ joined' = << >>
    /\ IF is_some(short_full_name_of(unwrap(person)))
       THEN Returns("get_short_full_name", unwrap(short_full_name_of(unwrap(person))))
       ELSE Panics("get_short_full_name")

\* Display::fmt: write!(f, "{}, {}", self.get_short_full_name(), self.get_age())
fmt ==
    /\ Method
    /\ joined' = << >>
    /\ IF /\ is_some(short_full_name_of(unwrap(person)))
          /\ is_some(age_of(unwrap(person), now))
       THEN Returns("fmt", unwrap(short_full_name_of(unwrap(person)))
                              \o << ",", " " >>
                              \o to_string(unwrap(age_of(unwrap(person), now))))
       ELSE Panics("fmt")

----------------------------------------------------------------------------
(* get_random_username *)

\* repeat_last_char(s, times)
repeat_last_char(s, times) ==
    IF is_some(last_char(s))
    THEN s \o [i \in 1 .. times |-> unwrap(last_char(s))]
    ELSE s

\* The (key, value) pairs leet_map is collected from.
leet_pairs ==
    << << "a", "4" >>, << "b", "8" >>, << "c", "C" >>, << "d", "d" >>, << "e", "3" >>,
       << "f", "F" >>, << "g", "6" >>, << "h", "h" >>, << "j", "J" >>, << "k", "k" >>,
       << "l", "1" >>, << "m", "m" >>, << "n", "n" >>, << "o", "0" >>, << "p", "p" >>,
       << "q", "Q" >>, << "r", "r" >>, << "s", "5" >>, << "t", "7" >>, << "u", "u" >>,
       << "v", "v" >>, << "w", "w" >>, << "x", "x" >>, << "y", "Y" >>, << "z", "2" >> >>

\* leet_map: HashMap<char, char>, a function on its keys (no key is listed twice).
leet_map ==
    [c \in { leet_pairs[k][1] : k \in DOMAIN leet_pairs } |->
        leet_pairs[CHOOSE k \in DOMAIN leet_pairs : leet_pairs[k][1] = c][2]]

\* leet_map.get(&c): Option<char>
leet_map_get(c) == IF c \in DOMAIN leet_map THEN Some(leet_map[c]) ELSE None

\* leetify_char: *leet_map.get(&c).unwrap_or(&c)
LeetifyCharWithI(c) ==
    IF c = "i" THEN "1"
    ELSE IF is_some(leet_map_get(c)) THEN unwrap(leet_map_get(c)) ELSE c

leetify_char(c) == IF is_some(leet_map_get(c)) THEN unwrap(leet_map_get(c)) ELSE c

\* leetify_string; draws[i] is the outcome of rng.gen_bool(0.25) at the i-th
\* character (no draw is made at the first: i == 0 short-circuits).
leetify_string(input, draws) ==
    [i \in 1 .. Len(input) |->
        IF i = 1 \/ ~draws[i] THEN input[i] ELSE leetify_char(input[i])]

\* The outcomes of the draws leetify_string makes on an input of `len` characters
\* that the model follows: those with at most MaxSubstitutions draws coming out true.
LeetDraws(len) ==
    { draws \in [2 .. len -> BOOLEAN] :
        Cardinality({ i \in 2 .. len : draws[i] }) <= MaxSubstitutions }

\* The four candidates of the number token.
number_tokens(self, n, age) ==
    << to_string(n), << >>, to_string(age), to_string(year(self.date_of_birth)) >>

\* get_middle_name().unwrap_or(".".into()).chars().next(): Option<char>
middle_name_initial(self) ==
    first_char(IF is_some(self.middle_name) THEN unwrap(self.middle_name) ELSE << "." >>)

\* The five candidates of the divisor.
divisor_tokens(initial) ==
    << << >>, << "-" >>, << "_" >>, << "." >>, << initial >> >>

\* parts: the name variants around the divisor, in the order gen_bool(0.70)
\* decides, and the number token.
PartsDivisorFirst(self, divisor, number, first_leads, times1, times2) ==
    IF first_leads
    THEN << divisor, repeat_last_char(self.first_name, times1),
            repeat_last_char(self.last_name, times2), number >>
    ELSE << divisor, repeat_last_char(self.last_name, times1),
            repeat_last_char(self.first_name, times2), number >>

parts_of(self, divisor, number, first_leads, times1, times2) ==
    IF first_leads
    THEN << repeat_last_char(self.first_name, times1), divisor,
            repeat_last_char(self.last_name, times2), number >>
    ELSE << repeat_last_char(self.last_name, times1), divisor,
            repeat_last_char(self.first_name, times2), number >>

RECURSIVE join(_)
\* parts.join("")
join(parts) == IF parts = << >> THEN << >> ELSE Head(parts) \o join(Tail(parts))

get_random_username ==
    /\ Method
    /\ IF \/ ~is_some(age_of(unwrap(person), now))
          \/ ~is_some(middle_name_initial(unwrap(person)))
       THEN /\ Panics("get_random_username")
            /\ joined' = << >>
       ELSE \E n \in NumberDraws,
               number_at \in 1 .. 4,
               divisor_at \in 1 .. 5,
               first_leads \in BOOLEAN,
               times1 \in gen_range(0, 2),
               times2 \in gen_range(0, 2) :
                \E input \in { join(parts_of(unwrap(person),
                                    divisor_tokens(unwrap(middle_name_initial(unwrap(person))))[divisor_at],
                                    number_tokens(unwrap(person), n,
                                                  unwrap(age_of(unwrap(person), now)))[number_at],
                                    first_leads, times1, times2)) } :
                    \E draws \in LeetDraws(Len(input)) :
                        /\ joined' = input
                        /\ Returns("get_random_username", leetify_string(input, draws))

----------------------------------------------------------------------------
(* The caller and the clock *)

\* The caller takes the returned value and goes on to its next call.
Continue ==
    /\ pc = "returned"
    /\ pc' = "ready"
    /\ op' = ""
    /\ args' = None
    /\ joined' = << >>
    /\ ret' = None
    /\ UNCHANGED << now, person, origin >>

\* Time passes between two calls: the clock's next reading is a later one.
Tick(readings) ==
    /\ pc = "ready"
    /\ \E t \in readings : t > now /\ now' = t
    /\ UNCHANGED << person, origin, pc, op, args, joined, ret >>

Init ==
    /\ now = ClockStart
    /\ person = None
    /\ origin = None
    /\ pc = "ready"
    /\ op = ""
    /\ args = None
    /\ joined = << >>
    /\ ret = None

Next ==
    \/ new
    \/ random
    \/ random_with_dob_range
    \/ with_dob_range
    \/ with_dob_range_custom_rng
    \/ get_first_name
    \/ get_middle_name
    \/ get_last_name
    \/ get_date_of_birth
    \/ get_age
    \/ get_full_name
    \/ get_short_full_name
    \/ fmt
    \/ get_random_username
    \/ Continue
    \/ Tick(ClockValues)

Spec == Init /\ [][Next]_vars

----------------------------------------------------------------------------
(* The documentation test of with_dob_range: a Person born between 40 and 21 *)
(* times 366 days ago, then get_age, at any reading of the clock.            *)

DocClockValues ==
    { Duration_days(DaysFromCivil(2024, 2, 29)) + 1,
      Duration_days(DaysFromCivil(2024, 3, 1)),
      Duration_days(DaysFromCivil(2121, 1, 1)) + TicksPerDay - 1 }

\* now - Duration::days(366 * 40)
doc_min(clock) == clock - Duration_days(366 * 40)

\* now - Duration::days(366 * 21)
DocMax365(clock) == clock - Duration_days(365 * 21)

doc_max(clock) == clock - Duration_days(366 * 21)

doc_test ==
    /\ person = None
    /\ \E coin \in BOOLEAN :
        Construct("random_with_dob_range", doc_min(now), doc_max(now), coin, None, "dates")

InitDoc ==
    /\ now \in DocClockValues
    /\ person = None
    /\ origin = None
    /\ pc = "ready"
    /\ op = ""
    /\ args = None
    /\ joined = << >>
    /\ ret = None

NextDoc ==
    \/ doc_test
    \/ get_age
    \/ Continue
    \/ Tick(DocClockValues)

SpecDoc == InitDoc /\ [][NextDoc]_vars

----------------------------------------------------------------------------
(* Properties *)

\* C1: a Person built from a range with max > min has min <= date_of_birth < max,
\* whatever offset was drawn.
DobWithinRange ==
    is_some(person) /\ unwrap(origin).max > unwrap(origin).min
        => /\ unwrap(origin).min <= unwrap(person).date_of_birth
           /\ unwrap(person).date_of_birth < unwrap(origin).max

\* A Person from a range-bounded constructor, born after the start of a range
\* that is not a whole number of milliseconds long.
DobWithinRangeWitness ==
    /\ op = "with_dob_range"
    /\ pc = "returned"
    /\ unwrap(person).date_of_birth > unwrap(origin).min
    /\ (unwrap(origin).max - unwrap(origin).min) % TicksPerMilli # 0

\* C2: the date_of_birth of a constructed Person never exceeds the clock, for
\* every constructor and every caller-supplied range with max > min, so get_age
\* never fails.
DobNeverExceedsNow ==
    /\ is_some(person) => unwrap(person).date_of_birth <= now
    /\ op = "get_age" => pc = "returned" /\ unwrap(ret) >= 0

\* C3: a constructor given have_middle_name yields None for false and Some(a
\* non-empty entry of NAMES) for true, and no later call changes that.
MiddleNameAsRequested ==
    is_some(person) /\ is_some(unwrap(origin).requested)
        => LET middle == unwrap(person).middle_name
           IN  /\ is_some(middle) <=> unwrap(unwrap(origin).requested)
               /\ is_some(middle)
                    => /\ Len(unwrap(middle)) > 0
                       /\ \E k \in DOMAIN NAMES : NAMES[k] = unwrap(middle)

\* A username was generated for a Person built with a middle name on request.
MiddleNameAsRequestedWitness ==
    /\ op = "get_random_username"
    /\ pc = "returned"
    /\ unwrap(origin).requested = Some(TRUE)
    /\ is_some(unwrap(person).middle_name)

\* C4: a Person built from the range (now - 366*40 days, now - 366*21 days) has
\* get_age() >= 21 at every call, for every offset drawn.
DocTestAgeAtLeast21 ==
    op = "get_age" => pc = "returned" /\ unwrap(ret) >= 21

\* get_age returned exactly 21 at a reading of the clock later than the one the
\* Person was built at.
DocTestAgeAtLeast21Witness ==
    /\ op = "get_age"
    /\ pc = "returned"
    /\ unwrap(ret) = 21
    /\ doc_max(now) > unwrap(origin).max

\* C5: get_full_name() is first_name, a space, the middle name and a space when
\* there is one, and last_name: a function of the Person alone, with exactly one
\* space when the middle name is absent.
FullNameFormat ==
    op = "get_full_name"
        => LET self == unwrap(person)
           IN  /\ pc = "returned"
               /\ is_some(self.middle_name)
                    => unwrap(ret) = self.first_name \o << " " >> \o unwrap(self.middle_name)
                                        \o << " " >> \o self.last_name
               /\ ~is_some(self.middle_name)
                    => /\ unwrap(ret) = self.first_name \o << " " >> \o self.last_name
                       /\ Cardinality({ i \in DOMAIN unwrap(ret) : unwrap(ret)[i] = " " }) = 1

\* get_full_name returned for a Person without a middle name.
FullNameFormatWitness ==
    /\ op = "get_full_name"
    /\ pc = "returned"
    /\ ~is_some(unwrap(person).middle_name)

\* C6: get_short_full_name() never fails; it is first_name, " ", the first
\* character of the middle name, ". ", last_name when there is a middle name,
\* and first_name, " ", last_name when there is none.
ShortFullNameFormat ==
    op = "get_short_full_name"
        => LET self == unwrap(person)
           IN  /\ pc = "returned"
               /\ is_some(self.middle_name)
                    => unwrap(ret) = self.first_name
                                        \o << " ", unwrap(self.middle_name)[1], ".", " " >>
                                        \o self.last_name
               /\ ~is_some(self.middle_name)
                    => unwrap(ret) = self.first_name \o << " " >> \o self.last_name

\* get_short_full_name returned for a Person with a middle name.
ShortFullNameFormatWitness ==
    /\ op = "get_short_full_name"
    /\ pc = "returned"
    /\ is_some(unwrap(person).middle_name)

\* C7: the first character of a username is the first character of first_name or
\* of last_name, whatever the draws.
UsernameStartsWithName ==
    op = "get_random_username" /\ pc = "returned"
        => \/ unwrap(ret)[1] = unwrap(person).first_name[1]
           \/ unwrap(ret)[1] = unwrap(person).last_name[1]

\* A username that starts with the lower-case first letter of a first name, a
\* letter the table has a substitute for, and has a substitution further on.
UsernameStartsWithNameWitness ==
    /\ op = "get_random_username"
    /\ pc = "returned"
    /\ unwrap(person).first_name[1] = "b"
    /\ unwrap(ret)[1] = "b"
    /\ unwrap(ret) # joined

\* C8: a constructor called with min >= max fails at that call, and no Person
\* comes from such a range.
MalformedRangeFails ==
    /\ is_some(args) /\ unwrap(args).min >= unwrap(args).max => pc = "panicked"
    /\ is_some(origin) => unwrap(origin).min < unwrap(origin).max

\* A constructor was called with max before min, and failed.
MalformedRangeFailsWitness ==
    /\ pc = "panicked"
    /\ is_some(args)
    /\ unwrap(args).min > unwrap(args).max

\* C9: a constructor called with max > min returns a Person.
ConstructionTotal ==
    is_some(args) /\ unwrap(args).max > unwrap(args).min => pc = "returned"

\* C10: leetification keeps the length and the first character; every later
\* character is kept or replaced by the table's substitute for it, and a
\* character without a table entry is kept.
LeetPerPosition ==
    op = "get_random_username" /\ pc = "returned"
        => LET s == joined
               r == unwrap(ret)
               unlisted == { "0", "1", "2", "3", "4", "5", "6", "7", "8", "9",
                             "A", "B", "C", "D", "E", "F", "G", "H", "I", "J", "K",
                             "L", "M", "N", "O", "P", "Q", "R", "S", "T", "U", "V",
                             "W", "X", "Y", "Z", "-", "_", ".", "i" }
           IN  /\ Len(r) = Len(s)
               /\ r[1] = s[1]
               /\ \A i \in 2 .. Len(s) :
                    /\ \/ r[i] = s[i]
                       \/ \E k \in DOMAIN leet_pairs :
                            leet_pairs[k][1] = s[i] /\ leet_pairs[k][2] = r[i]
                    /\ s[i] \in unlisted => r[i] = s[i]

\* A username in which a character was substituted and a later "i" was kept.
LeetPerPositionWitness ==
    /\ op = "get_random_username"
    /\ pc = "returned"
    /\ \E i \in 2 .. Len(joined) : unwrap(ret)[i] # joined[i]
    /\ \E i \in 2 .. Len(joined) : joined[i] = "i"

====
